---------------------------- MODULE Spec2Model ----------------------------
(***************************************************************************)
(* A model of python/tools/multi.py of premier_analysis:                   *)
(*   - parquets_dask: the time alignment (get_visit_timing, get_timing,    *)
(*     reset_agg_level) and the feature dictionary (all_df_to_feat);       *)
(*   - boot_cis, jackknife_metrics, boot_roc, get_times: the worker pools, *)
(*     the seeds and the confidence intervals.                             *)
(* Each part has its own specification over the part's variables; the      *)
(* other variables keep their initial value.                               *)
(***************************************************************************)
EXTENDS Integers, Sequences, FiniteSets, TLC

VARIABLES
    \* parquets_dask, time alignment
    agg_level,      \* self.agg_level
    id,             \* self.id: [kind, frame], frame: entity -> [days_from_index, los]
    visit_timing,   \* self.visit_timing: [kind, col, val]
    timing,         \* the last get_timing call: its arguments and what it returned
    pipe_op,        \* the last operation on the pipeline object
    pipe_err,       \* the exception the last operation raised, or "none"
    \* boot_cis, jackknife_metrics, boot_roc, get_times: control and pools
    pc,             \* the statement the running operation is at, or "idle"
    call,           \* the operation running or last run, and its arguments
    pools,          \* the Pools the operation created, in order: their states
    runs,           \* how often each batch of tasks was handed to a pool
    failed,         \* the batch whose task raised, and the failing tasks
    outcome,        \* "none", "running", "returned" or the exception raised
    scores,         \* boot_cis' local scores: whether built from the pool's
                    \* output, and its number of rows
    boot_obj,       \* the boot_cis object: which attributes are assigned
    \* boot_cis, boot_roc: the seeds
    np_state,       \* the state of numpy's global generator
    run1,           \* a first run: its arguments, seeds and index sets
    run2,           \* a second run
    \* parquets_dask: the feature dictionary
    feat_tables,    \* the six observation tables: the rows of each
    feat_out,       \* what all_df_to_feat returned, or NoFeat
    \* boot_cis: the confidence intervals
    ci_in,          \* the point estimate, the bootstrap score matrix, the
                    \* jackknife replicates and the interpolation rule
    ci1,            \* a boot_cis object built on ci_in
    ci2,            \* a second boot_cis object built on ci_in
    \* boot_cis: the calls to the metric function
    metric_pc,      \* where the call of boot_cis stands
    metric_cfg,     \* the arguments the caller gave to boot_cis
    metric_calls    \* the argument tuples handed to tools.clf_metrics

pipe_vars == <<agg_level, id, visit_timing, timing, pipe_op, pipe_err>>

pool_vars == <<pc, call, pools, runs, failed, outcome, scores, boot_obj>>

seed_vars == <<np_state, run1, run2>>

feat_vars == <<feat_tables, feat_out>>

ci_vars == <<ci_in, ci1, ci2>>

metric_vars == <<metric_pc, metric_cfg, metric_calls>>

vars == <<pipe_vars, pool_vars, seed_vars, feat_vars, ci_vars, metric_vars>>

\* What the actions of one part leave alone.
not_pipe_vars == <<pool_vars, seed_vars, feat_vars, ci_vars, metric_vars>>
not_pool_vars == <<pipe_vars, seed_vars, feat_vars, ci_vars, metric_vars>>
not_seed_vars == <<pipe_vars, pool_vars, feat_vars, ci_vars, metric_vars>>
not_feat_vars == <<pipe_vars, pool_vars, seed_vars, ci_vars, metric_vars>>
not_ci_vars == <<pipe_vars, pool_vars, seed_vars, feat_vars, metric_vars>>
not_metric_vars == <<pipe_vars, pool_vars, seed_vars, feat_vars, ci_vars>>

---------------------------------------------------------------------------
(***************************************************************************)
(* parquets_dask: time alignment                                           *)
(***************************************************************************)

\* Bounds of the checked inputs: each field is 0 or its largest value.
MaxIdx == 2         \* days_from_index of an entity
MaxLos == 1         \* los (length of stay) of an entity
MaxDay == 1         \* day-offset of a record

Entities == {"p1", "p2"}

agg_lvls == <<"dfi", "hfi", "mfi">>
AggLevels == {agg_lvls[i] : i \in 1..3}

\* the hour multiplier taken for the minute one
day_vals_hours_as_minutes == <<1, 24, 60>>

day_vals == <<1, 24, 1440>>

\* sec_vals zipped in the reverse order of agg_lvls
sec_vals_reversed == <<60, 60 * 60, 60 * 60 * 24>>

sec_vals == <<60 * 60 * 24, 60 * 60, 60>>

\* dict(zip(agg_lvls, vals))
ZipDict(keys, vals) ==
    [k \in {keys[i] : i \in 1..Len(keys)} |->
        vals[CHOOSE i \in 1..Len(keys) : keys[i] = k]]

from_days == ZipDict(agg_lvls, day_vals)

from_seconds == ZipDict(agg_lvls, sec_vals)

\* H:M:S values are triples <<h, m, s>>, the fields of the zero-padded string.
HoursPerDay == 24
MinutesPerHour == 60
SecondsPerMinute == 60

\* The stamps the checked records carry: both ends of the day and one inside.
TimeStamps ==
    { <<0, 0, 0>>, <<12, 30, 0>>,
      <<HoursPerDay - 1, MinutesPerHour - 1, SecondsPerMinute - 1>> }

\* self.time_dict: the position of the stamp in
\* product(range(24), range(60), range(60)), which enumerates the last field
\* fastest.
time_dict(t) == (t[1] * MinutesPerHour + t[2]) * SecondsPerMinute + t[3]

\* Timeline values are real numbers; the model holds them as integers in
\* units of 1/TimelineDenominator, which every from_seconds value divides.
TimelineDenominator == 86400

\* out[day_col] * from_days[level], in timeline units
DayTerm(d, lvl) == d * from_days[lvl] * TimelineDenominator

\* time_dict[stamp] / from_seconds[level], in timeline units (the division
\* of the denominator is exact for every from_seconds value)
TimeTerm(t, lvl) == time_dict(t) * (TimelineDenominator \div from_seconds[lvl])

\* The id table: days_from_index and los of every entity.
IdFrames == [Entities -> [days_from_index : {0, MaxIdx}, los : {0, MaxLos}]]

\* get_visit_timing(id_table): subscripting works on a dataframe; a
\* distributed Future is not subscriptable.
get_visit_timing(id_table, level) ==
    IF id_table.kind = "future"
    THEN [status |-> "TypeError"]
    ELSE [status |-> "ok",
          col    |-> level,
          val    |-> [e \in Entities |->
                        id_table.frame[e].days_from_index * from_days[level]]]

\* A record of a table handed to get_timing.
Rows == [day : {0, MaxDay}, time : TimeStamps]

NoTiming == [status |-> "none"]

\* get_timing(df, day_col, end_of_visit, time_col) for the rows of one
\* entity: the returned frame's timeline column and its values, or the
\* exception raised.
get_timing(e, rows, day_col, end_of_visit, time_col) ==
    LET joined == visit_timing.col
        base   == visit_timing.val[e] * TimelineDenominator
        withLos ==
            IF end_of_visit
            THEN base + DayTerm(id.frame[e].los, agg_level)
            ELSE base
        args == [entity |-> e, rows |-> rows, day_col |-> day_col,
                 end_of_visit |-> end_of_visit, time_col |-> time_col]
    IN  IF visit_timing.kind # "future" \/ (end_of_visit /\ id.kind # "future")
        THEN [status |-> "AttributeError", args |-> args]
        ELSE IF end_of_visit /\ agg_level # joined
        THEN [status |-> "KeyError", args |-> args]
        ELSE IF ~day_col
        THEN [status |-> "ok", args |-> args, col |-> joined,
              val |-> [i \in 1..Len(rows) |-> withLos]]
        ELSE IF agg_level # joined
        THEN [status |-> "KeyError", args |-> args]
        ELSE [status |-> "ok", args |-> args, col |-> agg_level,
              val |-> [i \in 1..Len(rows) |->
                         withLos + DayTerm(rows[i].day, agg_level)
                         + (IF time_col THEN TimeTerm(rows[i].time, agg_level)
                            ELSE 0)]]

\* line 112: the holder of zeros, before the pool's output replaces it
NoScores == [built |-> FALSE, rows |-> 0]

\* No resampling operation has been called.
PoolIdle ==
    /\ pc = "idle"
    /\ call = [fn |-> "none"]
    /\ pools = <<>>
    /\ runs = [b \in {} |-> 0]
    /\ failed = [batch |-> "none", tasks |-> {}]
    /\ outcome = "none"
    /\ scores = NoScores
    /\ boot_obj = [cis |-> FALSE, scores |-> FALSE, jack |-> FALSE]

\* No run has derived seeds.
NoRun == [done |-> FALSE]

SeedIdle ==
    /\ np_state = 0
    /\ run1 = NoRun
    /\ run2 = NoRun

final_names == <<"vitals", "bill", "gen_lab", "proc", "diag", "lab_res">>

TableNames == {final_names[i] : i \in 1..Len(final_names)}

\* all_df_to_feat has not run.
NoFeat == [done |-> FALSE]

\* The six tables hold no rows.
FeatIdle ==
    /\ feat_tables = [t \in TableNames |-> <<>>]
    /\ feat_out = NoFeat

\* No boot_cis object has been built.
NoCi == [done |-> FALSE]

CiIdle ==
    /\ ci_in = [given |-> FALSE]
    /\ ci1 = NoCi
    /\ ci2 = NoCi

\* No argument tuple has been handed to the metric function.
NoCalls == [stat |-> <<>>, boot |-> <<>>, jack |-> <<>>]

MetricIdle ==
    /\ metric_pc = "idle"
    /\ metric_cfg = [given |-> FALSE]
    /\ metric_calls = NoCalls

\* The state after parquets_dask.__init__: visit_timing is computed from the
\* lazy id table, and self.id is replaced by a Future afterwards.
InitTiming ==
    /\ agg_level \in AggLevels
    /\ \E f \in IdFrames :
        /\ id = [kind |-> "future", frame |-> f]
        /\ LET vt == get_visit_timing([kind |-> "dask", frame |-> f], agg_level)
           IN  visit_timing = [kind |-> "future", col |-> vt.col, val |-> vt.val]
    /\ timing = NoTiming
    /\ pipe_op = "init"
    /\ pipe_err = "none"
    /\ PoolIdle
    /\ SeedIdle
    /\ FeatIdle
    /\ CiIdle
    /\ MetricIdle

\* parquets_dask.reset_agg_level(new_level)
reset_agg_level(new_level) ==
    LET vt == get_visit_timing(id, new_level)
    IN  /\ agg_level' = new_level
        /\ IF vt.status = "ok"
           THEN /\ visit_timing' = [kind |-> "frame", col |-> vt.col, val |-> vt.val]
                /\ pipe_err' = "none"
           ELSE /\ visit_timing' = visit_timing
                /\ pipe_err' = vt.status
        /\ pipe_op' = "reset_agg_level"
        /\ timing' = NoTiming
        /\ UNCHANGED <<id, not_pipe_vars>>

ResetAggLevel == \E new_level \in AggLevels : reset_agg_level(new_level)

\* parquets_dask.get_timing on a table holding two records of one entity;
\* the caller holds one returned frame at a time.
GetTiming ==
    \E e \in Entities, a \in Rows, b \in Rows,
       day_col \in BOOLEAN, end_of_visit \in BOOLEAN, time_col \in BOOLEAN :
        LET r == get_timing(e, <<a, b>>, day_col, end_of_visit, time_col)
        IN  /\ timing = NoTiming
            /\ timing' = r
            /\ pipe_err' = (IF r.status = "ok" THEN "none" ELSE r.status)
            /\ pipe_op' = "get_timing"
            /\ UNCHANGED <<agg_level, id, visit_timing, not_pipe_vars>>

\* The caller drops the frame get_timing returned.
DropTiming ==
    /\ timing # NoTiming
    /\ timing' = NoTiming
    /\ UNCHANGED <<agg_level, id, visit_timing, pipe_op, pipe_err, not_pipe_vars>>

NextTiming == ResetAggLevel \/ GetTiming \/ DropTiming

SpecTiming == InitTiming /\ [][NextTiming]_vars

---------------------------------------------------------------------------
(***************************************************************************)
(* boot_cis, jackknife_metrics, boot_roc, get_times: worker pools          *)
(***************************************************************************)

\* The pipeline object when only the resampling functions are studied.
PipeIdle ==
    /\ agg_level = "dfi"
    /\ id = [kind |-> "future",
             frame |-> [e \in Entities |-> [days_from_index |-> 0, los |-> 0]]]
    /\ visit_timing = [kind |-> "future", col |-> "dfi",
                       val |-> [e \in Entities |-> 0]]
    /\ timing = NoTiming
    /\ pipe_op = "init"
    /\ pipe_err = "none"

\* Bounds: bootstrap iterations n, and rows of targets (jackknife replicates,
\* time stamps of a table).
MaxN == 2
MaxRows == 2

methods == {"pct", "diff", "bca"}

\* The method names a caller passes: the three known ones and an unknown one.
MethodArgs == methods \cup {"student"}

\* p.starmap(f, inputs) / p.map(f, inputs) with the tasks of `failing`
\* raising: the call re-raises a task's exception in the caller, and
\* otherwise returns one result per input, in the order of the inputs.
\* A variant that drops the tasks that raised and returns the others.
starmap_skip_failed(tasks, failing) ==
    [raised |-> FALSE, results |-> tasks \ failing]

starmap(tasks, failing) ==
    [raised |-> failing # {}, results |-> IF failing = {} THEN tasks ELSE {}]

\* The statement after `at` is reached with one more Pool, live.
PoolCreate(next) ==
    /\ pools' = Append(pools, "live")
    /\ pc' = next
    /\ UNCHANGED <<call, runs, failed, outcome, scores, boot_obj>>

\* p.close() / p.join() on the Pool created last.
PoolSet(from, to, next) ==
    /\ pools[Len(pools)] = from
    /\ pools' = [pools EXCEPT ![Len(pools)] = to]
    /\ pc' = next
    /\ UNCHANGED <<call, runs, failed, outcome, scores, boot_obj>>

\* The exception `exc` leaves the operation: control is back at the caller.
Raise(exc) ==
    /\ pc' = "idle"
    /\ outcome' = exc

\* One batch of `count` tasks handed to the pool; any subset of them raises.
\* On a raise the exception leaves the operation at once.
Batch(batch, count, next) ==
    \E failing \in SUBSET (1..count) :
        LET r == starmap(1..count, failing)
        IN  /\ runs' = [b \in DOMAIN runs \cup {batch} |->
                          IF b = batch
                          THEN (IF b \in DOMAIN runs THEN runs[b] + 1 ELSE 1)
                          ELSE runs[b]]
            /\ IF failing # {}
               THEN failed' = [batch |-> batch, tasks |-> failing]
               ELSE failed' = failed
            /\ IF r.raised
               THEN Raise("TaskError") /\ scores' = scores
               ELSE /\ pc' = next
                    /\ outcome' = outcome
                    /\ scores' = (IF batch = "clf_metrics"
                                  THEN [built |-> TRUE,
                                        rows |-> Cardinality(r.results)]
                                  ELSE scores)
            /\ UNCHANGED <<call, pools, boot_obj>>

\* A call starts: a fresh frame, and for boot_cis a fresh object.
Enter(c, first) ==
    /\ pc = "idle"
    /\ pc' = first
    /\ call' = c
    /\ pools' = <<>>
    /\ runs' = [b \in {} |-> 0]
    /\ failed' = [batch |-> "none", tasks |-> {}]
    /\ outcome' = "running"
    /\ scores' = NoScores
    /\ boot_obj' = [cis |-> FALSE, scores |-> FALSE, jack |-> FALSE]
    /\ UNCHANGED not_pool_vars

Return ==
    /\ pc' = "idle"
    /\ outcome' = "returned"

\* ---- boot_cis.__init__ ----

BootCisCall ==
    \E m \in MethodArgs, n \in 1..MaxN, rows \in 1..MaxRows :
        Enter([fn |-> "boot_cis", method |-> m, n |-> n, rows |-> rows], "bc_stat")

\* lines 103-118: the point estimate (in the caller's process), the holder
\* and the seeds
BootCisStat ==
    /\ pc = "bc_stat"
    /\ \E ok \in BOOLEAN :
        IF ok THEN pc' = "bc_pool" /\ outcome' = outcome
        ELSE Raise("MetricError")
    /\ UNCHANGED <<call, pools, runs, failed, scores, boot_obj, not_pool_vars>>

\* line 121
BootCisPool == pc = "bc_pool" /\ PoolCreate("bc_boot") /\ UNCHANGED not_pool_vars

\* lines 122-123
BootCisBoots ==
    /\ pc = "bc_boot"
    /\ Batch("boot_sample", call.n, "bc_metrics")
    /\ UNCHANGED not_pool_vars

\* lines 125-135
BootCisMetrics ==
    /\ pc = "bc_metrics"
    /\ Batch("clf_metrics", call.n, "bc_close")
    /\ UNCHANGED not_pool_vars

\* line 136
BootCisClose ==
    pc = "bc_close" /\ PoolSet("live", "closed", "bc_join") /\ UNCHANGED not_pool_vars

\* line 137
BootCisJoin ==
    pc = "bc_join" /\ PoolSet("closed", "joined", "bc_assert") /\ UNCHANGED not_pool_vars

\* lines 139-145
BootCisAssert ==
    /\ pc = "bc_assert"
    /\ IF call.method \in methods
       THEN /\ pc' = (IF call.method = "bca" THEN "jk_pool" ELSE "bc_cis")
            /\ outcome' = outcome
       ELSE Raise("AssertionError")
    /\ UNCHANGED <<call, pools, runs, failed, scores, boot_obj, not_pool_vars>>

\* line 194, after jackknife_metrics has returned into the bca branch
BootCisJack ==
    /\ pc = "bc_jack"
    /\ boot_obj' = [boot_obj EXCEPT !.jack = TRUE]
    /\ pc' = "bc_cis"
    /\ UNCHANGED <<call, pools, runs, failed, outcome, scores, not_pool_vars>>

\* lines 149-155, 159-168, 196-216, and 218-226: the intervals of the chosen
\* method, then self.cis and self.scores
BootCisAssign ==
    /\ pc = "bc_cis"
    /\ boot_obj' = [boot_obj EXCEPT !.cis = TRUE, !.scores = TRUE]
    /\ Return
    /\ UNCHANGED <<call, pools, runs, failed, scores, not_pool_vars>>

\* ---- jackknife_metrics (called directly, or by boot_cis for bca) ----

JackknifeCall ==
    \E rows \in 1..MaxRows :
        Enter([fn |-> "jackknife_metrics", rows |-> rows], "jk_pool")

\* line 67
JackknifePool == pc = "jk_pool" /\ PoolCreate("jk_map") /\ UNCHANGED not_pool_vars

\* lines 66, 68
JackknifeMap ==
    /\ pc = "jk_map"
    /\ Batch("jackknife", call.rows, "jk_close")
    /\ UNCHANGED not_pool_vars

\* line 69
JackknifeClose ==
    pc = "jk_close" /\ PoolSet("live", "closed", "jk_join") /\ UNCHANGED not_pool_vars

\* line 70
JackknifeJoin ==
    pc = "jk_join" /\ PoolSet("closed", "joined", "jk_ret") /\ UNCHANGED not_pool_vars

\* lines 72-75
JackknifeReturn ==
    /\ pc = "jk_ret"
    /\ IF call.fn = "boot_cis"
       THEN pc' = "bc_jack" /\ outcome' = outcome
       ELSE Return
    /\ UNCHANGED <<call, pools, runs, failed, scores, boot_obj, not_pool_vars>>

\* ---- boot_roc ----

BootRocCall ==
    \E n \in 1..MaxN : Enter([fn |-> "boot_roc", n |-> n], "br_pool")

\* line 235
BootRocPool == pc = "br_pool" /\ PoolCreate("br_boot") /\ UNCHANGED not_pool_vars

\* lines 236-237
BootRocBoots ==
    /\ pc = "br_boot"
    /\ Batch("boot_sample", call.n, "br_roc")
    /\ UNCHANGED not_pool_vars

\* lines 240-241
BootRocCurves ==
    /\ pc = "br_roc"
    /\ Batch("roc_curve", call.n, "br_ret")
    /\ UNCHANGED not_pool_vars

\* line 243
BootRocReturn ==
    /\ pc = "br_ret"
    /\ Return
    /\ UNCHANGED <<call, pools, runs, failed, scores, boot_obj, not_pool_vars>>

\* ---- get_times ----

GetTimesCall ==
    \E day_col \in BOOLEAN, time_col \in BOOLEAN, rows \in 1..MaxRows :
        Enter([fn |-> "get_times", day_col |-> day_col, time_col |-> time_col,
               rows |-> rows], "gt_days")

\* lines 27-41: no Pool without a day column or without a time column
GetTimesDays ==
    /\ pc = "gt_days"
    /\ pc' = (IF call.day_col /\ call.time_col THEN "gt_pool" ELSE "gt_ret")
    /\ UNCHANGED <<call, pools, runs, failed, outcome, scores, boot_obj, not_pool_vars>>

\* line 42
GetTimesPool == pc = "gt_pool" /\ PoolCreate("gt_hours") /\ UNCHANGED not_pool_vars

\* lines 43-44
GetTimesHours ==
    /\ pc = "gt_hours"
    /\ Batch("time_to_hours", call.rows, "gt_mins")
    /\ UNCHANGED not_pool_vars

\* line 45
GetTimesMinutes ==
    /\ pc = "gt_mins"
    /\ Batch("time_to_minutes", call.rows, "gt_close")
    /\ UNCHANGED not_pool_vars

\* line 46
GetTimesClose ==
    pc = "gt_close" /\ PoolSet("live", "closed", "gt_join") /\ UNCHANGED not_pool_vars

\* line 47
GetTimesJoin ==
    pc = "gt_join" /\ PoolSet("closed", "joined", "gt_ret") /\ UNCHANGED not_pool_vars

\* lines 31-35, 48-57
GetTimesReturn ==
    /\ pc = "gt_ret"
    /\ Return
    /\ UNCHANGED <<call, pools, runs, failed, scores, boot_obj, not_pool_vars>>

InitPool == PipeIdle /\ PoolIdle /\ SeedIdle /\ FeatIdle /\ CiIdle /\ MetricIdle

NextPool ==
    \/ BootCisCall \/ BootCisStat \/ BootCisPool \/ BootCisBoots
    \/ BootCisMetrics \/ BootCisClose \/ BootCisJoin \/ BootCisAssert
    \/ BootCisJack \/ BootCisAssign
    \/ JackknifeCall \/ JackknifePool \/ JackknifeMap \/ JackknifeClose
    \/ JackknifeJoin \/ JackknifeReturn
    \/ BootRocCall \/ BootRocPool \/ BootRocBoots \/ BootRocCurves
    \/ BootRocReturn
    \/ GetTimesCall \/ GetTimesDays \/ GetTimesPool \/ GetTimesHours
    \/ GetTimesMinutes \/ GetTimesClose \/ GetTimesJoin \/ GetTimesReturn

SpecPool == InitPool /\ [][NextPool]_vars

---------------------------------------------------------------------------
(***************************************************************************)
(* boot_cis, boot_roc: the per-iteration seeds                             *)
(***************************************************************************)

\* Bounds: the generator's number of states, and the largest master seed.
RngModulus == 4
MaxSeed == 1

\* The exclusive upper ends of the seeds drawn (lines 118 and 232).
SeedHigh == 1000000
RocSeedHigh == 10000000

\* numpy's generator is a deterministic automaton; the model's is a counter
\* on RngModulus states, whose state is the value drawn.
NextRng(x) == (x + 1) % RngModulus

\* np.random.seed(seed) with an integer seed: the state is a function of the
\* seed alone.
\* A variant that leaves the generator where it is.
np_random_seed_ignored(state, seed) == state

np_random_seed(state, seed) == seed % RngModulus

\* np.random.randint(low, high, n) from `state`: the n values drawn and the
\* state left behind.
RECURSIVE randint(_, _, _, _)
randint(state, low, high, n) ==
    IF n = 0 THEN [state |-> state, values |-> <<>>]
    ELSE LET x    == NextRng(state)
             rest == randint(x, low, high, n - 1)
         IN  [state  |-> rest.state,
              values |-> <<low + (x % (high - low))>> \o rest.values]

\* tools.boot_sample(targets, by, strata, seed): an index array as long as
\* targets, a function of its arguments.
boot_sample(rows, seed) ==
    [i \in 1..rows |-> 1 + ((seed * i + i) % rows)]

\* p.starmap(tools.boot_sample, boot_input): one index set per seed, in the
\* order of the seeds.
Boots(rows, seeds) == [i \in 1..Len(seeds) |-> boot_sample(rows, seeds[i])]

\* The master seeds a caller passes: None, or an integer.
SeedArgs ==
    {[given |-> FALSE, value |-> 0]}
        \cup {[given |-> TRUE, value |-> v] : v \in 0..MaxSeed}

\* boot_cis, lines 114-123: a None seed is drawn from the generator as it
\* stands; the generator is then seeded and the n seeds are drawn.
boot_cis_seeds(state, seed, n, rows) ==
    LET first  == IF seed.given
                  THEN [state |-> state, values |-> <<seed.value>>]
                  ELSE randint(state, 0, SeedHigh, 1)
        seeded == np_random_seed(first.state, first.values[1])
        drawn  == randint(seeded, 0, SeedHigh, n)
    IN  [state |-> drawn.state, seeds |-> drawn.values,
         boots |-> Boots(rows, drawn.values)]

\* boot_roc, lines 230-237, with an integer seed.
boot_roc_seeds(state, seed, n, rows) ==
    LET seeded == np_random_seed(state, seed.value)
        drawn  == randint(seeded, 1, RocSeedHigh, n)
    IN  [state |-> drawn.state, seeds |-> drawn.values,
         boots |-> Boots(rows, drawn.values)]

\* boot_roc with seed=None: np.random.seed(None) takes fresh entropy, so the
\* generator may be in any state when the seeds are drawn.
boot_roc_unseeded(entropy, n, rows) ==
    LET drawn == randint(entropy, 1, RocSeedHigh, n)
    IN  [state |-> drawn.state, seeds |-> drawn.values,
         boots |-> Boots(rows, drawn.values)]

\* One run of boot_cis or boot_roc, as far as the index sets.
RunRecord(fn, seed, n, rows, r) ==
    [done |-> TRUE, fn |-> fn, seed |-> seed, n |-> n, rows |-> rows,
     seeds |-> r.seeds, boots |-> r.boots]

Runs(fn, seed, n, rows, rec) ==
    \/ /\ fn = "boot_cis"
       /\ LET r == boot_cis_seeds(np_state, seed, n, rows)
          IN  np_state' = r.state /\ rec = RunRecord(fn, seed, n, rows, r)
    \/ /\ fn = "boot_roc" /\ seed.given
       /\ LET r == boot_roc_seeds(np_state, seed, n, rows)
          IN  np_state' = r.state /\ rec = RunRecord(fn, seed, n, rows, r)
    \/ /\ fn = "boot_roc" /\ ~seed.given
       /\ \E entropy \in 0..(RngModulus - 1) :
            LET r == boot_roc_unseeded(entropy, n, rows)
            IN  np_state' = r.state /\ rec = RunRecord(fn, seed, n, rows, r)

FirstRun ==
    /\ ~run1.done
    /\ \E fn \in {"boot_cis", "boot_roc"}, seed \in SeedArgs,
          n \in 1..MaxN, rows \in 1..MaxRows :
            Runs(fn, seed, n, rows, run1')
    /\ UNCHANGED <<run2, not_seed_vars>>

SecondRun ==
    /\ run1.done /\ ~run2.done
    /\ \E fn \in {"boot_cis", "boot_roc"}, seed \in SeedArgs,
          n \in 1..MaxN, rows \in 1..MaxRows :
            Runs(fn, seed, n, rows, run2')
    /\ UNCHANGED <<run1, not_seed_vars>>

\* Other code of the process draws from the global generator.
OtherDraw ==
    /\ np_state' = NextRng(np_state)
    /\ UNCHANGED <<run1, run2, not_seed_vars>>

InitSeed ==
    /\ PipeIdle /\ PoolIdle /\ FeatIdle /\ CiIdle /\ MetricIdle
    /\ np_state \in 0..(RngModulus - 1)
    /\ run1 = NoRun
    /\ run2 = NoRun

NextSeed == FirstRun \/ SecondRun \/ OtherDraw

SpecSeed == InitSeed /\ [][NextSeed]_vars

---------------------------------------------------------------------------
(***************************************************************************)
(* parquets_dask: the feature dictionary                                   *)
(***************************************************************************)

\* Strings are sequences of one-character strings.

\* Bound: the rows of the six tables together.
MaxTotalRows == 3

\* The prefix of "diag" taken for "proc" as well (both read icd_code).
feat_prefix_proc_twice ==
    << <<"v", "t", "l">>, <<"b", "i", "l", "l">>, <<"g", "e", "n", "l">>,
       <<"p", "r", "o", "c">>, <<"p", "r", "o", "c">>, <<"l", "b", "r", "s">> >>

feat_prefix ==
    << <<"v", "t", "l">>, <<"b", "i", "l", "l">>, <<"g", "e", "n", "l">>,
       <<"p", "r", "o", "c">>, <<"d", "x">>, <<"l", "b", "r", "s">> >>

\* num_col: whether the table has a numeric column
num_col == <<TRUE, FALSE, TRUE, FALSE, FALSE, FALSE>>

\* The position of a table in the class's lists.
TableIndex(t) == CHOOSE i \in 1..Len(final_names) : final_names[i] = t

\* The categorical values of the checked rows; every table may hold each.
Categories == { <<"a">>, <<"b">> }

\* str() of the bucket label pd.qcut gives a row: a float label, or nan.
BucketLabels == { <<"0", ".", "0">>, <<"n", "a", "n">> }

\* A row: its categorical value, and the bucket label where the table has a
\* numeric column.
TableRows(t) ==
    IF num_col[TableIndex(t)]
    THEN [cat : Categories, q : BucketLabels]
    ELSE [cat : Categories]

Digits == <<"0", "1", "2", "3", "4", "5", "6", "7", "8", "9">>

\* str(i) for i >= 0
RECURSIVE Str(_)
Str(i) ==
    IF i < 10 THEN <<Digits[i + 1]>>
    ELSE Str(i \div 10) \o <<Digits[(i % 10) + 1]>>

\* df_to_features, lines 503-520: the text column of a row
RowText(t, row) ==
    IF num_col[TableIndex(t)]
    THEN row.cat \o <<" ", "q">> \o row.q
    ELSE row.cat

\* df_to_features on a table: its "text" column
df_to_features(t, rows) == [i \in 1..Len(rows) |-> RowText(t, rows[i])]

\* text.unique(): the distinct values in the order of their first appearance
RECURSIVE Unique(_)
Unique(seq) ==
    IF seq = <<>> THEN <<>>
    ELSE LET front == Unique(SubSeq(seq, 1, Len(seq) - 1))
             last  == seq[Len(seq)]
         IN  IF \E i \in 1..Len(front) : front[i] = last
             THEN front ELSE Append(front, last)

\* dict(zip(keys, values)): a later pair replaces an earlier one of its key
Dict(keys, values) ==
    [k \in {keys[i] : i \in 1..Len(keys)} |->
        LET last == CHOOSE i \in 1..Len(keys) :
                        /\ keys[i] = k
                        /\ \A j \in 1..Len(keys) : keys[j] = k => j <= i
        IN  values[last]]

\* col_to_features(text, feature_prefix): the keys and the values, in order
ftr_codes(text, prefix) ==
    [i \in 1..Len(Unique(text)) |-> prefix \o Str(i - 1)]

col_to_features(text, prefix) == Dict(ftr_codes(text, prefix), Unique(text))

\* condense_features: text mapped through the inverted code_dict
condense_features(text, prefix) ==
    LET inverted == Dict(Unique(text), ftr_codes(text, prefix))
    IN  [i \in 1..Len(text) |-> inverted[text[i]]]

\* tp.flatten of the six lists
RECURSIVE Flatten(_)
Flatten(lists) ==
    IF lists = <<>> THEN <<>> ELSE Head(lists) \o Flatten(Tail(lists))

\* all_df_to_feat: the tables with their ftr column, the code dicts and the
\* merged dictionary
all_df_to_feat(tables) ==
    LET text(i)   == df_to_features(final_names[i], tables[final_names[i]])
        keys      == [i \in 1..Len(final_names) |-> ftr_codes(text(i), feat_prefix[i])]
        values    == [i \in 1..Len(final_names) |-> Unique(text(i))]
    IN  [done |-> TRUE,
         out  |-> [t \in TableNames |->
                     condense_features(text(TableIndex(t)),
                                       feat_prefix[TableIndex(t)])],
         code_dicts |-> [t \in TableNames |->
                     col_to_features(text(TableIndex(t)),
                                     feat_prefix[TableIndex(t)])],
         ftr_dict |-> Dict(Flatten(keys), Flatten(values))]

TotalRows == Len(Flatten([i \in 1..Len(final_names) |-> feat_tables[final_names[i]]]))

\* A record is loaded into one of the tables.
LoadRow ==
    /\ ~feat_out.done
    /\ TotalRows < MaxTotalRows
    /\ \E t \in TableNames : \E row \in TableRows(t) :
        feat_tables' = [feat_tables EXCEPT ![t] = Append(@, row)]
    /\ UNCHANGED <<feat_out, not_feat_vars>>

AllDfToFeat ==
    /\ ~feat_out.done
    /\ feat_out' = all_df_to_feat(feat_tables)
    /\ UNCHANGED <<feat_tables, not_feat_vars>>

InitFeat == PipeIdle /\ PoolIdle /\ SeedIdle /\ FeatIdle /\ CiIdle /\ MetricIdle

NextFeat == LoadRow \/ AllDfToFeat

SpecFeat == InitFeat /\ [][NextFeat]_vars

---------------------------------------------------------------------------
(***************************************************************************)
(* boot_cis: the confidence intervals                                      *)
(***************************************************************************)

\* Bounds: the bootstrap iterations n (rows of the score matrix) and the
\* rows of targets (jackknife replicates).
MaxBoot == 4
JackRows == 3

\* Metric values, in any unit.
ScoreValues == 0..2

ScoreTop == CHOOSE v \in ScoreValues : \A w \in ScoreValues : w <= v

\* The metrics clf_metrics returns: a rate and its complement.
colnames == {"m1", "m2"}

\* The significance levels a, in thousandths.
Alphas == {50, 500, 900}

Interpolations == {"linear", "lower", "higher", "midpoint", "nearest"}

\* Fixed point: probabilities (and percentile ranks / 100) are counted in
\* halves of a thousandth, so that a / 2 is exact; z-scores and the
\* acceleration in thousandths; interval bounds in 1/ProbDen of the metric's
\* unit.
ProbDen == 2 * 1000
ZInf == 1000 * 1000

\* The columns of n values, up to the order of the rows.
SortedCols(n) ==
    {c \in [1..n -> ScoreValues] : \A i \in 1..(n - 1) : c[i] <= c[i + 1]}

Complement(col) == [i \in DOMAIN col |-> ScoreTop - col[i]]

RECURSIVE Insert(_, _)
Insert(sorted, x) ==
    IF sorted = <<>> THEN <<x>>
    ELSE IF x <= Head(sorted) THEN <<x>> \o sorted
    ELSE <<Head(sorted)>> \o Insert(Tail(sorted), x)

RECURSIVE Sort(_)
Sort(col) ==
    IF col = <<>> THEN <<>> ELSE Insert(Sort(Tail(col)), Head(col))

\* np.nanpercentile(col, q, interpolation) for a column without NaN, at the
\* rank q = 100 * rank / ProbDen: the value at the virtual index
\* rank * (n - 1) / ProbDen of the sorted column.
nanpercentile(col, rank, interpolation) ==
    LET sorted == Sort(col)
        num    == rank * (Len(col) - 1)
        lo     == num \div ProbDen
        rem    == num % ProbDen
        hi     == IF rem = 0 THEN lo ELSE lo + 1
        near   == IF 2 * rem < ProbDen THEN lo
                  ELSE IF 2 * rem > ProbDen THEN hi
                  ELSE IF lo % 2 = 0 THEN lo ELSE hi
    IN  CASE interpolation = "lower"    -> ProbDen * sorted[lo + 1]
          [] interpolation = "higher"   -> ProbDen * sorted[hi + 1]
          [] interpolation = "nearest"  -> ProbDen * sorted[near + 1]
          [] interpolation = "midpoint" ->
                (ProbDen \div 2) * (sorted[lo + 1] + sorted[hi + 1])
          [] interpolation = "linear"   ->
                ProbDen * sorted[lo + 1] + rem * (sorted[hi + 1] - sorted[lo + 1])

\* The standard normal table the model interpolates: <<probability, z>> for
\* the lower half.
NormalTable ==
    << <<1, -3291>>, <<10, -2576>>, <<50, -1960>>, <<100, -1645>>,
       <<200, -1282>>, <<400, -842>>, <<500, -674>>, <<800, -253>>,
       <<900, -126>>, <<1000, 0>> >>

PpfLow(p) ==
    LET i == CHOOSE k \in 1..(Len(NormalTable) - 1) :
                 NormalTable[k][1] <= p /\ p <= NormalTable[k + 1][1]
        a == NormalTable[i]
        b == NormalTable[i + 1]
    IN  a[2] + ((p - a[1]) * (b[2] - a[2])) \div (b[1] - a[1])

\* scipy.stats.norm.ppf: -inf at 0, +inf at 1
norm_ppf(p) ==
    IF p = 0 THEN -ZInf
    ELSE IF p = ProbDen THEN ZInf
    ELSE IF p > ProbDen \div 2 THEN -PpfLow(ProbDen - p)
    ELSE PpfLow(p)

CdfLow(z) ==
    IF z < NormalTable[1][2] THEN 0
    ELSE LET i == CHOOSE k \in 1..(Len(NormalTable) - 1) :
                      NormalTable[k][2] <= z /\ z <= NormalTable[k + 1][2]
             a == NormalTable[i]
             b == NormalTable[i + 1]
         IN  a[1] + ((z - a[2]) * (b[1] - a[1])) \div (b[2] - a[2])

\* scipy.stats.norm.cdf
norm_cdf(z) == IF z > 0 THEN ProbDen - CdfLow(-z) ELSE CdfLow(z)

isinf(z) == z = ZInf \/ z = -ZInf

RECURSIVE SqrtBetween(_, _, _)
SqrtBetween(x, lo, hi) ==
    IF hi - lo <= 1 THEN lo
    ELSE LET mid == (lo + hi) \div 2
         IN  IF mid * mid <= x THEN SqrtBetween(x, mid, hi)
             ELSE SqrtBetween(x, lo, mid)

\* the integer part of the square root, for x < 46340 * 46340
ISqrt(x) == SqrtBetween(x, 0, 46340)

RECURSIVE SumSeq(_)
SumSeq(seq) == IF seq = <<>> THEN 0 ELSE Head(seq) + SumSeq(Tail(seq))

\* lines 140-141: the ranks of the percentile method, a in thousandths
\* The two ranks taken for each other.
pct_lower_swapped(a) == ProbDen - (a * ProbDen) \div (2 * 1000)

pct_lower(a) == (a * ProbDen) \div (2 * 1000)

pct_upper(a) == ProbDen - pct_lower(a)

\* lines 174-176 without the clamp of line 179
bca_z0_unclamped(col, stat) ==
    LET n_less == Cardinality({i \in 1..Len(col) : col[i] < stat})
    IN  norm_ppf((n_less * ProbDen) \div Len(col))

\* lines 174-179: the bias correction of one metric
bca_z0(col, stat) ==
    LET n_less == Cardinality({i \in 1..Len(col) : col[i] < stat})
        p_less == (n_less * ProbDen) \div Len(col)
        z0     == norm_ppf(p_less)
    IN  IF isinf(z0) THEN 0 ELSE z0

\* lines 182-193: the acceleration of one metric from its jackknife
\* replicates. diffs are the mean minus the replicates; the model takes them
\* times the number of replicates, which leaves numer / denom as it is.
bca_acc(jack) ==
    LET diffs == [i \in 1..Len(jack) |-> SumSeq(jack) - Len(jack) * jack[i]]
        numer == SumSeq([i \in 1..Len(jack) |-> diffs[i] * diffs[i] * diffs[i]])
        sq    == SumSeq([i \in 1..Len(jack) |-> diffs[i] * diffs[i]])
    IN  IF sq = 0 THEN 0
        ELSE (numer * 10 * 1000) \div (6 * ISqrt(100 * sq * sq * sq))

\* lines 199-200: (z0 + z) / (1 - acc * (z0 + z))
\* The parentheses of the denominator's product left out.
bca_term_unparenthesised(z0, acc, z) ==
    LET den == 1000 - ((acc * z0) \div 1000) + z
    IN  IF den = 0 THEN (IF z0 + z > 0 THEN ZInf ELSE -ZInf)
        ELSE ((z0 + z) * 1000) \div den

bca_term(z0, acc, z) ==
    LET den == 1000 - ((acc * (z0 + z)) \div 1000)
    IN  IF den = 0 THEN (IF z0 + z > 0 THEN ZInf ELSE -ZInf)
        ELSE ((z0 + z) * 1000) \div den

\* lines 197-202: the adjusted rank of one metric for the quantile p
bca_rank(z0, acc, p) == norm_cdf(z0 + bca_term(z0, acc, norm_ppf(p)))

\* boot_cis.__init__, lines 139-224, on the inputs of ci_in
boot_cis(method, a) ==
    LET in    == ci_in
        lower == pct_lower(a)
        upper == pct_upper(a)
        z0    == [m \in colnames |-> bca_z0(in.scores[m], in.stat[m])]
        acc   == [m \in colnames |-> bca_acc(in.jack[m])]
        lower_q == [m \in colnames |-> bca_rank(z0[m], acc[m], lower)]
        upper_q == [m \in colnames |-> bca_rank(z0[m], acc[m], upper)]
        diffs(m) == [i \in 1..Len(in.scores[m]) |-> in.stat[m] - in.scores[m][i]]
    IN  CASE method = "pct" ->
              [done |-> TRUE, method |-> method, a |-> a,
               cis |-> [m \in colnames |->
                   [stat  |-> in.stat[m],
                    lower |-> nanpercentile(in.scores[m], lower, in.interpolation),
                    upper |-> nanpercentile(in.scores[m], upper, in.interpolation)]]]
          [] method = "diff" ->
              [done |-> TRUE, method |-> method, a |-> a,
               cis |-> [m \in colnames |->
                   [stat  |-> in.stat[m],
                    lower |-> ProbDen * in.stat[m]
                              + nanpercentile(diffs(m), lower, in.interpolation),
                    upper |-> ProbDen * in.stat[m]
                              + nanpercentile(diffs(m), upper, in.interpolation)]]]
          [] method = "bca" ->
              [done |-> TRUE, method |-> method, a |-> a,
               z0 |-> z0, acc |-> acc, lower_q |-> lower_q, upper_q |-> upper_q,
               cis |-> [m \in colnames |->
                   [stat  |-> in.stat[m],
                    lower |-> nanpercentile(in.scores[m], lower_q[m], in.interpolation),
                    upper |-> nanpercentile(in.scores[m], upper_q[m], in.interpolation)]]]

\* The inputs of the objects: the second metric is the complement of the
\* first in the point estimate, in every bootstrap row and in every
\* jackknife replicate.
InitCi ==
    /\ PipeIdle /\ PoolIdle /\ SeedIdle /\ FeatIdle /\ MetricIdle
    /\ \E col \in SortedCols(MaxBoot), stat \in ScoreValues,
          jack \in SortedCols(JackRows), interpolation \in Interpolations :
        ci_in = [given |-> TRUE,
                 scores |-> [m \in colnames |->
                                IF m = "m1" THEN col ELSE Complement(col)],
                 stat   |-> [m \in colnames |->
                                IF m = "m1" THEN stat ELSE ScoreTop - stat],
                 jack   |-> [m \in colnames |->
                                IF m = "m1" THEN jack ELSE Complement(jack)],
                 interpolation |-> interpolation]
    /\ ci1 = NoCi
    /\ ci2 = NoCi

BuildFirst ==
    /\ ~ci1.done
    /\ \E method \in methods, a \in Alphas : ci1' = boot_cis(method, a)
    /\ UNCHANGED <<ci_in, ci2, not_ci_vars>>

BuildSecond ==
    /\ ci1.done /\ ~ci2.done
    /\ \E method \in methods, a \in Alphas : ci2' = boot_cis(method, a)
    /\ UNCHANGED <<ci_in, ci1, not_ci_vars>>

NextCi == BuildFirst \/ BuildSecond

SpecCi == InitCi /\ [][NextCi]_vars

---------------------------------------------------------------------------
(***************************************************************************)
(* boot_cis: the arguments of the calls to the metric function             *)
(***************************************************************************)

\* The weighting flag as a call carries it.
Flags == {"True", "False"}

\* average_by: None, or a key with one entry per row; a key is known by the
\* rows its entries belong to, in order.
None == [given |-> FALSE, rows |-> <<>>]

Key(rows) == [given |-> TRUE, rows |-> rows]

\* range(targets.shape[0])
AllRows(count) == [i \in 1..count |-> i]

\* np.delete(rows, row)
Delete(rows, row) ==
    [i \in 1..(Len(rows) - 1) |-> IF i < row THEN rows[i] ELSE rows[i + 1]]

\* One argument tuple of tools.clf_metrics: the rows of targets and guesses,
\* the grouping key and the weighting flag it works with.
ClfArgs(rows, average_by, weighted) ==
    [rows |-> rows, average_by |-> average_by, weighted |-> weighted]

\* What boot_cis can be called with. clf_default is the value tools.clf_metrics
\* gives its weighted parameter when the call leaves it out.
ConfigsOf(count) ==
    {[given |-> TRUE, count |-> count, n |-> Len(seeds), seeds |-> seeds,
      average_by |-> average_by, weighted |-> weighted, method |-> method,
      clf_default |-> clf_default] :
        seeds \in UNION {[1..k -> 0..MaxSeed] : k \in 1..MaxN},
        average_by \in {None, Key(AllRows(count))},
        weighted \in Flags, method \in methods, clf_default \in Flags}

MetricConfigs == UNION {ConfigsOf(count) : count \in 1..MaxRows}

\* lines 103-106: the point estimate on all rows
stat_inputs(cfg) ==
    <<ClfArgs(AllRows(cfg.count), cfg.average_by, cfg.weighted)>>

\* lines 125-131: the argument tuples of the bootstrap iterations; without a
\* key the tuples hold targets and guesses alone
boot_inputs(cfg) ==
    LET boots == Boots(cfg.count, cfg.seeds)
    IN  IF cfg.average_by # None
        THEN [i \in 1..Len(boots) |->
                 ClfArgs(boots[i], Key(boots[i]), cfg.weighted)]
        ELSE [i \in 1..Len(boots) |->
                 ClfArgs(boots[i], None, cfg.clf_default)]

\* jackknife_metrics(targets, guesses, average_by, weighted), lines 62-66:
\* average_by goes into every tuple as it came in
jackknife_inputs(count, average_by, weighted) ==
    [row \in 1..count |->
        ClfArgs(Delete(AllRows(count), row), average_by, weighted)]

\* line 182: j = jackknife_metrics(targets, guesses), on the defaults of
\* line 60
boot_cis_jackknife(cfg) == jackknife_inputs(cfg.count, None, "True")

\* boot_cis(targets, guesses, ..., average_by, weighted, ...) is called
MetricEnter ==
    /\ metric_pc = "idle"
    /\ metric_cfg' \in MetricConfigs
    /\ metric_calls' = NoCalls
    /\ metric_pc' = "stat"
    /\ UNCHANGED not_metric_vars

MetricStat ==
    /\ metric_pc = "stat"
    /\ metric_calls' = [metric_calls EXCEPT !.stat = stat_inputs(metric_cfg)]
    /\ metric_pc' = "boot"
    /\ UNCHANGED <<metric_cfg, not_metric_vars>>

MetricBoots ==
    /\ metric_pc = "boot"
    /\ metric_calls' = [metric_calls EXCEPT !.boot = boot_inputs(metric_cfg)]
    /\ metric_pc' = IF metric_cfg.method = "bca" THEN "jack" ELSE "done"
    /\ UNCHANGED <<metric_cfg, not_metric_vars>>

MetricJack ==
    /\ metric_pc = "jack"
    /\ metric_calls' =
           [metric_calls EXCEPT !.jack = boot_cis_jackknife(metric_cfg)]
    /\ metric_pc' = "done"
    /\ UNCHANGED <<metric_cfg, not_metric_vars>>

\* line 226
MetricReturn ==
    /\ metric_pc = "done"
    /\ metric_pc' = "idle"
    /\ UNCHANGED <<metric_cfg, metric_calls, not_metric_vars>>

InitMetric ==
    PipeIdle /\ PoolIdle /\ SeedIdle /\ FeatIdle /\ CiIdle /\ MetricIdle

NextMetric ==
    MetricEnter \/ MetricStat \/ MetricBoots \/ MetricJack \/ MetricReturn

SpecMetric == InitMetric /\ [][NextMetric]_vars

---------------------------------------------------------------------------
(***************************************************************************)
(* Claims on the time alignment                                            *)
(***************************************************************************)

\* C1: after reset_agg_level(new_level) the call has returned normally,
\* visit_timing is held in the column named by the new level and equals
\* days_from_index * from_days[new_level] for every entity; and whenever
\* get_timing has run, it succeeded with the timeline in the unit of
\* agg_level.
C1_ResetRecomputesVisitTiming ==
    /\ pipe_op = "reset_agg_level" =>
          /\ pipe_err = "none"
          /\ visit_timing.col = agg_level
          /\ \A e \in Entities :
                visit_timing.val[e]
                    = id.frame[e].days_from_index * from_days[agg_level]
    /\ pipe_op = "get_timing" =>
          /\ timing.status = "ok"
          /\ timing.col = agg_level

\* The multiplier m the claims name for each level.
ClaimedMultiplier(lvl) ==
    CASE lvl = "dfi" -> 1
      [] lvl = "hfi" -> 24
      [] lvl = "mfi" -> 1440

\* m * (index day-offset) + m * (day-offset, when day_col) + m * (los, when
\* end_of_visit), in timeline units
ClaimedDays(a, i, lvl) ==
    ClaimedMultiplier(lvl) * TimelineDenominator
        * ( id.frame[a.entity].days_from_index
            + (IF a.day_col THEN a.rows[i].day ELSE 0)
            + (IF a.end_of_visit THEN id.frame[a.entity].los ELSE 0) )

\* second-of-day / from_seconds[level], in timeline units
ClaimedIntraDay(a, i, lvl) ==
    time_dict(a.rows[i].time) * (TimelineDenominator \div from_seconds[lvl])

NotLater(a, b) ==
    \/ a.day < b.day
    \/ a.day = b.day /\ time_dict(a.time) <= time_dict(b.time)

\* C7: in a returned frame a record that is not later than another has a
\* timeline value that is not greater; and at every level the intra-day
\* contribution of a stamp is at least 0 and less than that of one day.
C7_Monotonic ==
    /\ timing.status = "ok" =>
          \A i, j \in 1..Len(timing.args.rows) :
              NotLater(timing.args.rows[i], timing.args.rows[j])
                  => timing.val[i] <= timing.val[j]
    /\ \A lvl \in AggLevels, t \in TimeStamps :
          /\ 0 <= TimeTerm(t, lvl)
          /\ TimeTerm(t, lvl) < DayTerm(1, lvl)

\* C7 witness: the earlier record carries the later time of day, both
\* columns are used, and its timeline value is the smaller one.
C7_Witness ==
    /\ timing.status = "ok"
    /\ timing.args.day_col /\ timing.args.time_col
    /\ timing.args.rows[1].day < timing.args.rows[2].day
    /\ time_dict(timing.args.rows[1].time) > time_dict(timing.args.rows[2].time)
    /\ timing.val[1] < timing.val[2]

---------------------------------------------------------------------------
(***************************************************************************)
(* Claims on the worker pools and on boot_cis' failures                    *)
(***************************************************************************)

\* C2: whenever an operation has handed control back to its caller, by a
\* normal return or by a raise, every Pool it created is closed and joined.
C2_PoolsScoped ==
    pc = "idle" => \A i \in 1..Len(pools) : pools[i] = "joined"

\* C3: in a boot_cis call with an unknown method name no batch of tasks is
\* handed to a pool, and neither cis nor scores is assigned.
C3_UnknownMethodRejectedFirst ==
    (call.fn = "boot_cis" /\ call.method \notin methods) =>
        /\ DOMAIN runs = {}
        /\ ~boot_obj.cis /\ ~boot_obj.scores

\* C4: once a worker task of a boot_cis call has raised, the call is over
\* with that exception at the caller; no batch was handed to a pool twice,
\* the local score matrix is absent or complete (n rows) and absent when a
\* bootstrap task failed, and cis and scores are not assigned.
C4_TaskFailureAborts ==
    (call.fn = "boot_cis" /\ failed.batch # "none") =>
        /\ pc = "idle"
        /\ outcome = "TaskError"
        /\ \A b \in DOMAIN runs : runs[b] = 1
        /\ scores.built => scores.rows = call.n
        /\ failed.batch \in {"boot_sample", "clf_metrics"} => ~scores.built
        /\ ~boot_obj.cis /\ ~boot_obj.scores

\* C4 witness: one bootstrap metric task raised while another one succeeded.
C4_Witness ==
    /\ call.fn = "boot_cis"
    /\ failed.batch = "clf_metrics"
    /\ failed.tasks # {}
    /\ Cardinality(failed.tasks) < call.n
    /\ outcome = "TaskError"

---------------------------------------------------------------------------
(***************************************************************************)
(* Claims on the seeds                                                     *)
(***************************************************************************)

\* C5: two runs of the same function with the same explicit master seed, the
\* same n and the same inputs derive the same sequence of n seeds and obtain
\* the same sequence of index sets.
C5_Reproducible ==
    ( /\ run1.done /\ run2.done
      /\ run1.fn = run2.fn
      /\ run1.seed.given /\ run1.seed = run2.seed
      /\ run1.n = run2.n
      /\ run1.rows = run2.rows ) =>
        /\ Len(run1.seeds) = run1.n
        /\ run1.seeds = run2.seeds
        /\ run1.boots = run2.boots

\* C5 witness: two such runs of more than one iteration over more than one
\* row.
C5_Witness ==
    /\ run1.done /\ run2.done
    /\ run1.fn = run2.fn
    /\ run1.seed.given /\ run1.seed = run2.seed
    /\ run1.n = run2.n /\ run1.n > 1
    /\ run1.rows = run2.rows /\ run1.rows > 1
    /\ run1.seeds = run2.seeds
    /\ run1.seeds[1] # run1.seeds[2]

---------------------------------------------------------------------------
(***************************************************************************)
(* Claims on the feature dictionary                                        *)
(***************************************************************************)

\* The long-form text of a row: its category, plus the bucket suffix in the
\* two tables with a numeric column.
LongForm(t, row) ==
    IF t \in {"vitals", "gen_lab"}
    THEN row.cat \o <<" ", "q">> \o row.q
    ELSE row.cat

RECURSIVE SumOver(_, _)
SumOver(f, S) ==
    IF S = {} THEN 0
    ELSE LET x == CHOOSE y \in S : TRUE IN f[x] + SumOver(f, S \ {x})

\* C8: after all_df_to_feat, the token of every row of every table is a key
\* of the merged dictionary and of the code dict of exactly one table, the
\* merged dictionary has as many entries as the six code dicts together, and
\* the token's entry is the row's long-form text.
C8_RoundTrip ==
    feat_out.done =>
        /\ \A t \in TableNames : \A i \in 1..Len(feat_tables[t]) :
              LET token == feat_out.out[t][i]
              IN  /\ token \in DOMAIN feat_out.ftr_dict
                  /\ {u \in TableNames : token \in DOMAIN feat_out.code_dicts[u]}
                        = {t}
                  /\ feat_out.ftr_dict[token] = LongForm(t, feat_tables[t][i])
        /\ Cardinality(DOMAIN feat_out.ftr_dict)
              = SumOver([t \in TableNames |->
                            Cardinality(DOMAIN feat_out.code_dicts[t])],
                        TableNames)

\* C8 witness: the same category stands in proc and in diag, and a table
\* with a numeric column holds a row too.
C8_Witness ==
    /\ feat_out.done
    /\ Len(feat_tables["proc"]) > 0 /\ Len(feat_tables["diag"]) > 0
    /\ feat_tables["proc"][1].cat = feat_tables["diag"][1].cat
    /\ Len(feat_tables["vitals"]) > 0
    /\ feat_out.out["proc"][1] # feat_out.out["diag"][1]

---------------------------------------------------------------------------
(***************************************************************************)
(* Claims on the confidence intervals                                      *)
(***************************************************************************)

CiObjects == {o \in {ci1, ci2} : o.done}

\* the metrics of a bca object whose bias correction and acceleration are 0
Degenerate(o) == {m \in colnames : o.z0[m] = 0 /\ o.acc[m] = 0}

C10_LowerNonDecreasingAsClaimed ==
    (ci1.done /\ ci2.done /\ ci1.method = "pct" /\ ci2.method = "pct"
        /\ ci1.a > ci2.a) =>
        \A m \in colnames : ci2.cis[m].lower >= ci1.cis[m].lower

\* C10: for method pct on a fixed score matrix and a1 > a2, the lower bound
\* does not rise as a decreases: lower_bound(a2) <= lower_bound(a1) for
\* every metric.
C10_LowerNonIncreasing ==
    (ci1.done /\ ci2.done /\ ci1.method = "pct" /\ ci2.method = "pct"
        /\ ci1.a > ci2.a) =>
        \A m \in colnames : ci2.cis[m].lower <= ci1.cis[m].lower

\* Two pct objects on the same scores, the second with the smaller a and a
\* strictly lower bound.
C10_Witness ==
    /\ ci1.done /\ ci2.done
    /\ ci1.method = "pct" /\ ci2.method = "pct"
    /\ ci1.a > ci2.a
    /\ \E m \in colnames : ci2.cis[m].lower < ci1.cis[m].lower

\* the fraction of the bootstrap values of metric m strictly below the point
\* estimate, in 1/ProbDen
p_less(m) ==
    (Cardinality({i \in 1..Len(ci_in.scores[m]) :
                     ci_in.scores[m][i] < ci_in.stat[m]}) * ProbDen)
        \div Len(ci_in.scores[m])

\* C11: in boot_cis with method bca, every metric whose fraction of bootstrap
\* values strictly below the point estimate is 0 or 1 has z0 = 0; no infinite
\* z0 reaches lterm, uterm, lower_q or upper_q (the ranks are those computed
\* from the finite z0 and lie between 0 and 100 percent); and the z0 of every
\* other metric is norm.ppf of its fraction, untouched by the clamp.
C11_InfiniteZ0Clamped ==
    \A o \in CiObjects : o.method = "bca" =>
        \A m \in colnames :
            /\ p_less(m) \in {0, ProbDen} => o.z0[m] = 0
            /\ p_less(m) \notin {0, ProbDen} => o.z0[m] = norm_ppf(p_less(m))
            /\ ~isinf(o.z0[m])
            /\ o.lower_q[m] = bca_rank(o.z0[m], o.acc[m], pct_lower(o.a))
            /\ o.upper_q[m] = bca_rank(o.z0[m], o.acc[m], pct_upper(o.a))
            /\ o.lower_q[m] \in 0..ProbDen
            /\ o.upper_q[m] \in 0..ProbDen

\* A bca object with one metric whose fraction is 0 or 1 (z0 clamped) next to
\* a metric whose fraction lies strictly between and whose z0 is not 0.
C11_Witness ==
    /\ ci1.done /\ ci1.method = "bca"
    /\ \E m \in colnames : p_less(m) \in {0, ProbDen} /\ ci1.z0[m] = 0
    /\ \E m \in colnames : p_less(m) \notin {0, ProbDen} /\ ci1.z0[m] # 0

---------------------------------------------------------------------------
(***************************************************************************)
(* Claims on the calls to the metric function                              *)
(***************************************************************************)

AllCalls ==
    {metric_calls.stat[i] : i \in DOMAIN metric_calls.stat}
        \cup {metric_calls.boot[i] : i \in DOMAIN metric_calls.boot}
        \cup {metric_calls.jack[i] : i \in DOMAIN metric_calls.jack}

\* C12: for every average_by (None or a key) and weighted, the point-estimate
\* call, each bootstrap-iteration call and each jackknife leave-one-out call
\* to the metric function work with the caller's weighting flag and with the
\* grouping key restricted to the rows of that call.
C12_ConfigAppliedUniformly ==
    \A c \in AllCalls :
        /\ c.weighted = metric_cfg.weighted
        /\ c.average_by =
               (IF metric_cfg.average_by = None THEN None ELSE Key(c.rows))

====
